---------------------------- MODULE Spec2Model ----------------------------
(***************************************************************************)
(* Model of the heat-diffusion / eikonal simulator (HeatDiffusionSimulator *)
(* in src/unnamed/part_000): the mesh fields, the source list, the three   *)
(* kernels (updateHeatDiffusion, solveEikonal, updateCombined), and the    *)
(* event handlers and tick of the driver loop.                             *)
(*                                                                         *)
(* Numbers.  The program computes in IEEE doubles; the model computes in   *)
(* fixed point, every quantity an integer count of a named unit:           *)
(*   temperature   TempScale units per degree C                            *)
(*   distance      DistScale units per unit of travel time                 *)
(*   speed         SpeedScale units per unit of speed                      *)
(*   timeStep      TimeScale units per second                              *)
(* Products and quotients round to the unit of their result, as a double   *)
(* operation rounds to its precision.  Intermediate values stay below 2^31.*)
(***************************************************************************)
EXTENDS Integers, Sequences, FiniteSets, TLC

(***************************************************************************)
(* Bounds of the model.                                                    *)
(***************************************************************************)
\* mesh is MeshSize x MeshSize (the program runs 20..200, 50 by default)
MeshSize == 5
\* ticks that run a kernel between two resets
MaxIter == 1
\* length of heatSources
MaxSources == 2
\* how far (in TimeScale units) the +/- keys may move timeStep from 0.01
MaxTsDrift == 1

(***************************************************************************)
(* Units and program constants.                                            *)
(***************************************************************************)
TempScale == 100000
DistScale == 1000
SpeedScale == 1000
TimeScale == 1000

\* static constexpr double AMBIENT_TEMP = 20.0
AMBIENT_TEMP == 20 * TempScale
\* static constexpr double MAX_DISPLAY_TEMP = 1000.0
MAX_DISPLAY_TEMP == 1000 * TempScale
\* static constexpr double COOLING_RATE = 0.005, in thousandths
COOLING_RATE == 5
\* IronProperties::thermalDiffusivity = 2.3e-5, in units of 1e-6
thermalDiffusivity == 23
\* std::numeric_limits<double>::infinity(): above every finite distance
Infinity == 100000000

Idx == 0 .. (MeshSize - 1)

\* largest s with s*s <= n (std::sqrt at the model's resolution)
ISqrt(n) == CHOOSE s \in 0 .. 5000 : s * s <= n /\ (s + 1) * (s + 1) > n

\* std::sqrt(2) in DistScale units
Sqrt2 == ISqrt(2 * DistScale * DistScale)

\* std::sqrt(alpha) * 1000.0 in SpeedScale units (sqrt(2.3e-5)*1000 = sqrt(23))
InitialSpeed == ISqrt(thermalDiffusivity * SpeedScale * SpeedScale)

HeatSource(x, y, temp) == [x |-> x, y |-> y, temperature |-> temp]

EikonalNode(x, y, dist) == [x |-> x, y |-> y, distance |-> dist]

\* a meshSize x meshSize field holding v everywhere; fields are indexed [row][column]
Field(v) == [i \in Idx |-> [j \in Idx |-> v]]

Min(a, b) == IF a < b THEN a ELSE b

Max(a, b) == IF a > b THEN a ELSE b

VARIABLES
    temperature,        \* std::vector<std::vector<double>> temperature
    newTemperature,     \* the second buffer
    eikonalDistance,    \* arrival time per cell, Infinity when unset
    propagationSpeed,   \* speed per cell
    heatSources,        \* std::vector<HeatSource>, in insertion order
    timeStep,           \* seconds per tick
    currentTime,        \* simulated time
    iterations,         \* ticks run since construction or reset
    mode,               \* SimulationMode
    isRunning,          \* false while paused
    warned,             \* whether the latest update() wrote the stability warning to std::cout
    solver              \* solveEikonal's position and locals (pq, visited) while it runs

vars == <<temperature, newTemperature, eikonalDistance, propagationSpeed,
          heatSources, timeStep, currentTime, iterations, mode, isRunning, warned, solver>>

(***************************************************************************)
(* The mesh as a record of the fields the mesh operations read and write.  *)
(***************************************************************************)
Mesh(t, nt, d, sp, hs) ==
    [temperature |-> t, newTemperature |-> nt, eikonalDistance |-> d,
     propagationSpeed |-> sp, heatSources |-> hs]

CurrentMesh ==
    Mesh(temperature, newTemperature, eikonalDistance, propagationSpeed, heatSources)

\* initializeMesh(): every field reassigned; heatSources is not touched
InitializeMesh(m) ==
    [m EXCEPT !.temperature = Field(AMBIENT_TEMP),
              !.newTemperature = Field(AMBIENT_TEMP),
              !.eikonalDistance = Field(Infinity),
              !.propagationSpeed = Field(InitialSpeed)]

\* mutant: out-of-range coordinates are clamped onto the mesh instead of rejected
AddHeatSourceClamped(m, x, y, temp) ==
    LET cx == IF x < 0 THEN 0 ELSE IF x >= MeshSize THEN MeshSize - 1 ELSE x
        cy == IF y < 0 THEN 0 ELSE IF y >= MeshSize THEN MeshSize - 1 ELSE y
    IN  [m EXCEPT !.heatSources = Append(@, HeatSource(cx, cy, temp)),
                  !.temperature[cy][cx] = temp,
                  !.eikonalDistance[cy][cx] = 0]

\* addHeatSource(x, y, temperature): out-of-range coordinates change nothing
AddHeatSource(m, x, y, temp) ==
    IF x >= 0 /\ x < MeshSize /\ y >= 0 /\ y < MeshSize
    THEN [m EXCEPT !.heatSources = Append(@, HeatSource(x, y, temp)),
                   !.temperature[y][x] = temp,
                   !.eikonalDistance[y][x] = 0]
    ELSE m


(***************************************************************************)
(* solveEikonal(): Dijkstra over the 8-connected mesh.  The solver's       *)
(* locals are a record: dist (the eikonalDistance member being written),   *)
(* pq (the priority queue's entries, in insertion order) and visited.      *)
(***************************************************************************)
\* const int dx[], dy[]; const double edgeLength[] (in DistScale units)
dx == <<-1, -1, -1, 0, 0, 1, 1, 1>>

dy == <<-1, 0, 1, -1, 1, -1, 0, 1>>

\* mutant: the first entry of edgeLength[] is 1, the up-left diagonal costs an axis step
edgeLengthTypo == <<DistScale, DistScale, Sqrt2, DistScale, DistScale, Sqrt2, DistScale, Sqrt2>>

edgeLength == <<Sqrt2, DistScale, Sqrt2, DistScale, DistScale, Sqrt2, DistScale, Sqrt2>>

\* mutant: the reset loop is missing, the earlier contents stay
ResetDistancesKeep(dist) == dist

\* the first loop: every cell back to infinity, whatever it held
ResetDistances(dist) == [i \in Idx |-> [j \in Idx |-> Infinity]]

\* edgeLength[i] / speed, rounded down to the distance unit
TravelTime(i, speed) == (edgeLength[i] * SpeedScale) \div speed

\* mutant: the seeding loop queues each source but does not write its distance
RECURSIVE SeedSourcesNoZero(_, _, _)
SeedSourcesNoZero(st, hs, k) ==
    IF k > Len(hs) THEN st
    ELSE SeedSourcesNoZero([st EXCEPT !.pq = Append(@, EikonalNode(hs[k].x, hs[k].y, 0))],
                           hs, k + 1)

\* the second loop: each source's cell to 0 and one queue entry per source
RECURSIVE SeedSources(_, _, _)
SeedSources(st, hs, k) ==
    IF k > Len(hs) THEN st
    ELSE SeedSources([st EXCEPT !.dist[hs[k].y][hs[k].x] = 0,
                                !.pq = Append(@, EikonalNode(hs[k].x, hs[k].y, 0))],
                     hs, k + 1)

\* mutant: the step is charged at the speed of the popped cell, not the neighbour's
RelaxOwnSpeed(st, sp, current, i) ==
    LET nx == current.x + dx[i]
        ny == current.y + dy[i]
    IN  IF nx >= 0 /\ nx < MeshSize /\ ny >= 0 /\ ny < MeshSize /\ ~st.visited[ny][nx]
        THEN LET newDistance == current.distance + TravelTime(i, sp[current.y][current.x])
             IN  IF newDistance < st.dist[ny][nx]
                 THEN [st EXCEPT !.dist[ny][nx] = newDistance,
                                 !.pq = Append(@, EikonalNode(nx, ny, newDistance))]
                 ELSE st
        ELSE st

\* one iteration of the inner for loop: relax neighbour i of the popped node
Relax(st, sp, current, i) ==
    LET nx == current.x + dx[i]
        ny == current.y + dy[i]
    IN  IF nx >= 0 /\ nx < MeshSize /\ ny >= 0 /\ ny < MeshSize /\ ~st.visited[ny][nx]
        THEN LET newDistance == current.distance + TravelTime(i, sp[ny][nx])
             IN  IF newDistance < st.dist[ny][nx]
                 THEN [st EXCEPT !.dist[ny][nx] = newDistance,
                                 !.pq = Append(@, EikonalNode(nx, ny, newDistance))]
                 ELSE st
        ELSE st

RECURSIVE RelaxNeighbours(_, _, _, _)
RelaxNeighbours(st, sp, current, i) ==
    IF i > 8 THEN st
    ELSE RelaxNeighbours(Relax(st, sp, current, i), sp, current, i + 1)

\* the sequence q without its k-th entry
RemoveAt(q, k) == [n \in 1 .. (Len(q) - 1) |-> IF n < k THEN q[n] ELSE q[n + 1]]

\* mutant: the queue is a max-heap (std::less), the farthest entry on top
TopIndicesMax(q) == {k \in 1 .. Len(q) : \A n \in 1 .. Len(q) : ~(q[k].distance < q[n].distance)}

\* the indices pq.top() may return: operator> compares distance only
TopIndices(q) == {k \in 1 .. Len(q) : \A n \in 1 .. Len(q) : ~(q[k].distance > q[n].distance)}

\* mutant: the popped cell is not marked, visited[current.y][current.x] = true is missing
PopStepNoMark(st, sp, k) ==
    LET current == st.pq[k]
        popped == [st EXCEPT !.pq = RemoveAt(@, k)]
    IN  IF st.visited[current.y][current.x] THEN popped
        ELSE RelaxNeighbours(popped, sp, current, 1)

\* one iteration of the while loop, popping entry k
PopStep(st, sp, k) ==
    LET current == st.pq[k]
        popped == [st EXCEPT !.pq = RemoveAt(@, k)]
    IN  IF st.visited[current.y][current.x] THEN popped
        ELSE RelaxNeighbours([popped EXCEPT !.visited[current.y][current.x] = TRUE],
                             sp, current, 1)

\* the while loop, to the empty queue
RECURSIVE RunQueue(_, _)
RunQueue(st, sp) ==
    IF st.pq = <<>> THEN st
    ELSE RunQueue(PopStep(st, sp, CHOOSE k \in TopIndices(st.pq) : TRUE), sp)

\* the solver's locals after the two initialisation loops
SolverStart(dist, hs) ==
    SeedSources([dist |-> ResetDistances(dist), pq |-> <<>>, visited |-> Field(FALSE)],
                hs, 1)

\* no call of solveEikonal is in progress: its locals do not exist
NoSolver == [pc |-> "idle", pq |-> <<>>, visited |-> Field(FALSE)]

SolveEikonal(m) ==
    [m EXCEPT !.eikonalDistance =
        RunQueue(SolverStart(m.eikonalDistance, m.heatSources), m.propagationSpeed).dist]


(***************************************************************************)
(* updateHeatDiffusion(): one explicit finite-difference step.             *)
(***************************************************************************)
\* r = alpha * timeStep / (dx * dx) with dx = 1.0, in units of 1e-6 / TimeScale
Ratio(ts) == thermalDiffusivity * ts

\* r > 0.25, the condition of the stability warning
Unstable(ts) == Ratio(ts) > (1000000 * TimeScale) \div 4

\* r * laplacian in temperature units.  For r below 5e-5 (the +/- keys keep it below
\* 2.3e-6) r is taken in full and the laplacian in units of 0.1 degree; for larger r
\* the product would leave 32 bits, and r is taken in units of 1e-4
RTimes(ts, laplacian) ==
    IF Ratio(ts) < 50000
    THEN ((laplacian \div 10000) * Ratio(ts)) \div ((1000000 * TimeScale) \div 10000)
    ELSE (laplacian \div 10000) * (Ratio(ts) \div ((1000000 * TimeScale) \div 10000))

\* the 2D Laplacian of field t at (i, j)
Laplacian(t, i, j) ==
    t[i - 1][j] + t[i + 1][j] + t[i][j - 1] + t[i][j + 1] - 4 * t[i][j]

\* mutant: the stencil reads newTemperature, the buffer the loop is writing, cell
\* after cell in row-major order (k counts the cells done)
RECURSIVE InteriorFromNew(_, _, _, _)
InteriorFromNew(nt, t, ts, k) ==
    LET i == k \div MeshSize
        j == k % MeshSize
    IN  IF k >= MeshSize * MeshSize THEN nt
        ELSE IF i >= 1 /\ i < MeshSize - 1 /\ j >= 1 /\ j < MeshSize - 1
        THEN InteriorFromNew([nt EXCEPT ![i][j] = t[i][j] + RTimes(ts, Laplacian(nt, i, j))],
                             t, ts, k + 1)
        ELSE InteriorFromNew(nt, t, ts, k + 1)

InteriorLoopReadsNew(nt, t, ts) == InteriorFromNew(nt, t, ts, 0)

\* the interior loop: newTemperature[i][j] from temperature, for 1 <= i, j <= meshSize-2
InteriorLoop(nt, t, ts) ==
    [i \in Idx |-> [j \in Idx |->
        IF i >= 1 /\ i < MeshSize - 1 /\ j >= 1 /\ j < MeshSize - 1
        THEN t[i][j] + RTimes(ts, Laplacian(t, i, j))
        ELSE nt[i][j]]]

\* v * (1.0 - COOLING_RATE), the rate in thousandths
Cooled(v, cool) == v - (v * cool) \div 1000

\* the boundary loop's body for index i: four writes, in the order of the code
BoundaryWrites(nt, t, i, cool) ==
    LET n1 == [nt EXCEPT ![0][i] = Cooled(t[1][i], cool)]
        n2 == [n1 EXCEPT ![MeshSize - 1][i] = Cooled(t[MeshSize - 2][i], cool)]
        n3 == [n2 EXCEPT ![i][0] = Cooled(t[i][1], cool)]
    IN  [n3 EXCEPT ![i][MeshSize - 1] = Cooled(t[i][MeshSize - 2], cool)]

RECURSIVE BoundaryLoop(_, _, _, _)
BoundaryLoop(nt, t, i, cool) ==
    IF i >= MeshSize THEN nt
    ELSE BoundaryLoop(BoundaryWrites(nt, t, i, cool), t, i + 1, cool)

\* "Maintain heat sources": each source's cell overwritten, in list order
RECURSIVE PinSources(_, _, _)
PinSources(nt, hs, k) ==
    IF k > Len(hs) THEN nt
    ELSE PinSources([nt EXCEPT ![hs[k].y][hs[k].x] = hs[k].temperature], hs, k + 1)

\* mutant: the stability check returns after its warning, an unstable step is not taken
UpdateHeatDiffusionAborts(m, ts, cool) ==
    IF Unstable(ts) THEN m
    ELSE LET interior == InteriorLoop(m.newTemperature, m.temperature, ts)
             boundary == BoundaryLoop(interior, m.temperature, 0, cool)
             pinned == PinSources(boundary, m.heatSources, 1)
         IN  [m EXCEPT !.temperature = pinned, !.newTemperature = m.temperature]

\* the whole step, ending with std::swap(temperature, newTemperature);
\* cool is COOLING_RATE, a parameter so that the step can be applied with another rate
UpdateHeatDiffusion(m, ts, cool) ==
    LET interior == InteriorLoop(m.newTemperature, m.temperature, ts)
        boundary == BoundaryLoop(interior, m.temperature, 0, cool)
        pinned == PinSources(boundary, m.heatSources, 1)
    IN  [m EXCEPT !.temperature = pinned, !.newTemperature = m.temperature]

(***************************************************************************)
(* updateCombined(): solve, diffuse, then blend the eikonal field in.      *)
(***************************************************************************)
\* x^k / k! in millionths, x in thousandths
RECURSIVE ExpTerm(_, _)
ExpTerm(x, k) == IF k = 0 THEN 1000000 ELSE (ExpTerm(x, k - 1) * x) \div (1000 * k)

\* std::exp(-x) in millionths for x >= 0 in thousandths (series to the 8th power)
ExpNeg(x) ==
    ExpTerm(x, 0) - ExpTerm(x, 1) + ExpTerm(x, 2) - ExpTerm(x, 3) + ExpTerm(x, 4)
        - ExpTerm(x, 5) + ExpTerm(x, 6) - ExpTerm(x, 7) + ExpTerm(x, 8)

\* std::max(AMBIENT_TEMP, MAX_DISPLAY_TEMP * std::exp(-distance * 0.08))
EikonalTemp(distance) ==
    Max(AMBIENT_TEMP, (MAX_DISPLAY_TEMP \div 1000000) * ExpNeg((distance * 8 * 1000) \div (100 * DistScale)))

\* (1.0 - eikonalWeight) * temp + eikonalWeight * eikonalTemp, eikonalWeight = 0.15
Blend(temp, eikonalTemp) == (temp - (15 * temp) \div 100) + (15 * eikonalTemp) \div 100

\* the blend loop: every cell with a finite distance
BlendLoop(t, dist) ==
    [i \in Idx |-> [j \in Idx |->
        IF dist[i][j] < Infinity THEN Blend(t[i][j], EikonalTemp(dist[i][j]))
        ELSE t[i][j]]]

UpdateCombined(m, ts, cool) ==
    LET solved == SolveEikonal(m)
        stepped == UpdateHeatDiffusion(solved, ts, cool)
    IN  [stepped EXCEPT !.temperature = BlendLoop(@, stepped.eikonalDistance)]


(***************************************************************************)
(* The simulator: construction, the event handlers, the tick.              *)
(***************************************************************************)
\* timeStep(0.01) in the constructor's initialiser list
InitialTimeStep == 10

\* the 800.0 of the centre source and the 900.0 of a clicked one
CentreTemp == 800 * TempScale

ClickTemp == 900 * TempScale

\* the members hold mesh m after the step
StoreMesh(m) ==
    /\ temperature' = m.temperature
    /\ newTemperature' = m.newTemperature
    /\ eikonalDistance' = m.eikonalDistance
    /\ propagationSpeed' = m.propagationSpeed
    /\ heatSources' = m.heatSources

meshVars == <<temperature, newTemperature, eikonalDistance, propagationSpeed, heatSources>>

\* the constructor's mesh: initializeMesh(), then the centre source
Constructed ==
    AddHeatSource(InitializeMesh(Mesh(<<>>, <<>>, <<>>, <<>>, <<>>)),
                  MeshSize \div 2, MeshSize \div 2, CentreTemp)

Init ==
    /\ temperature = Constructed.temperature
    /\ newTemperature = Constructed.newTemperature
    /\ eikonalDistance = Constructed.eikonalDistance
    /\ propagationSpeed = Constructed.propagationSpeed
    /\ heatSources = Constructed.heatSources
    /\ timeStep = InitialTimeStep
    /\ currentTime = 0
    /\ iterations = 0
    /\ mode = "HEAT_DIFFUSION"
    /\ isRunning = FALSE
    /\ warned = FALSE
    /\ solver = NoSolver

\* mutant: heatSources.clear() is missing, the centre source is added to the old list
ResetKeepsSources ==
    /\ isRunning' = FALSE
    /\ currentTime' = 0
    /\ iterations' = 0
    /\ StoreMesh(AddHeatSource(InitializeMesh(CurrentMesh),
                               MeshSize \div 2, MeshSize \div 2, CentreTemp))
    /\ UNCHANGED <<timeStep, mode, warned, solver>>

\* reset()
Reset ==
    /\ isRunning' = FALSE
    /\ currentTime' = 0
    /\ iterations' = 0
    /\ StoreMesh(AddHeatSource(InitializeMesh([CurrentMesh EXCEPT !.heatSources = <<>>]),
                               MeshSize \div 2, MeshSize \div 2, CentreTemp))
    /\ UNCHANGED <<timeStep, mode, warned, solver>>

\* handleEvents(), case SDLK_SPACE
KeySpace ==
    /\ isRunning' = ~isRunning
    /\ UNCHANGED <<meshVars, timeStep, currentTime, iterations, mode, warned, solver>>

\* handleEvents(), case SDLK_r
KeyR == Reset

\* handleEvents(), cases SDLK_1, SDLK_2, SDLK_3
KeyMode(md) ==
    /\ mode' = md
    /\ UNCHANGED <<meshVars, timeStep, currentTime, iterations, isRunning, warned, solver>>

\* timeStep * 1.1 and timeStep * 0.9, rounded to the time unit
Scaled(ts, tenths) == (ts * tenths + 5) \div 10

\* the +/- keys are followed while timeStep stays within MaxTsDrift of its initial value
WithinDrift(ts) == ts - InitialTimeStep <= MaxTsDrift /\ InitialTimeStep - ts <= MaxTsDrift

\* handleEvents(), cases SDLK_PLUS / SDLK_EQUALS
KeyPlus ==
    /\ timeStep' = Min(TimeScale \div 10, Scaled(timeStep, 11))
    /\ WithinDrift(timeStep')
    /\ UNCHANGED <<meshVars, currentTime, iterations, mode, isRunning, warned, solver>>

\* handleEvents(), case SDLK_MINUS
KeyMinus ==
    /\ timeStep' = Max(TimeScale \div 1000, Scaled(timeStep, 9))
    /\ WithinDrift(timeStep')
    /\ UNCHANGED <<meshVars, currentTime, iterations, mode, isRunning, warned, solver>>

\* the cells <<x, y>> a left click is converted to: a corner, an interior cell next
\* to it, the centre (already a source), and two cells off the mesh
ClickCells ==
    {<<0, 0>>, <<1, 1>>, <<MeshSize \div 2, MeshSize \div 2>>,
     <<-1, 0>>, <<MeshSize \div 2, MeshSize>>}

\* handleEvents(), case SDL_MOUSEBUTTONDOWN, for a click converted to cell (x, y)
MouseClick(x, y) ==
    /\ Len(heatSources) < MaxSources
    /\ IF x >= 0 /\ x < MeshSize /\ y >= 0 /\ y < MeshSize
       THEN StoreMesh(AddHeatSource(CurrentMesh, x, y, ClickTemp))
       ELSE UNCHANGED meshVars
    /\ UNCHANGED <<timeStep, currentTime, iterations, mode, isRunning, warned, solver>>

\* whether update() in mode md writes the stability warning: updateHeatDiffusion
\* (called in the diffusion and combined modes) does when r > 0.25
Warns(md, ts) == md \in {"HEAT_DIFFUSION", "COMBINED"} /\ Unstable(ts)

\* mutant: case EIKONAL lacks its break and falls through into case COMBINED
KernelFallThrough(md, m, ts, cool) ==
    CASE md = "HEAT_DIFFUSION" -> UpdateHeatDiffusion(m, ts, cool)
      [] md = "EIKONAL" -> UpdateCombined(SolveEikonal(m), ts, cool)
      [] md = "COMBINED" -> UpdateCombined(m, ts, cool)

\* the switch of update(): the kernel of the selected mode
Kernel(md, m, ts, cool) ==
    CASE md = "HEAT_DIFFUSION" -> UpdateHeatDiffusion(m, ts, cool)
      [] md = "EIKONAL" -> SolveEikonal(m)
      [] md = "COMBINED" -> UpdateCombined(m, ts, cool)

\* mutant: the test of isRunning is missing, a paused tick runs the kernel too
UpdateWithIgnoresPause(cool) ==
    /\ iterations < MaxIter
    /\ StoreMesh(Kernel(mode, CurrentMesh, timeStep, cool))
    /\ currentTime' = currentTime + timeStep
    /\ iterations' = iterations + 1
    /\ warned' = Warns(mode, timeStep)
    /\ UNCHANGED <<timeStep, mode, isRunning, solver>>

\* update() with cooling rate cool: nothing while paused, else one kernel, then
\* time and count
UpdateWith(cool) ==
    IF ~isRunning THEN UNCHANGED vars
    ELSE /\ iterations < MaxIter
         /\ StoreMesh(Kernel(mode, CurrentMesh, timeStep, cool))
         /\ currentTime' = currentTime + timeStep
         /\ iterations' = iterations + 1
         /\ warned' = Warns(mode, timeStep)
         /\ UNCHANGED <<timeStep, mode, isRunning, solver>>

\* update()
Update == UpdateWith(COOLING_RATE)

Next ==
    \/ KeySpace
    \/ KeyR
    \/ \E md \in {"HEAT_DIFFUSION", "EIKONAL", "COMBINED"} : KeyMode(md)
    \/ KeyPlus
    \/ KeyMinus
    \/ \E c \in ClickCells : MouseClick(c[1], c[2])
    \/ Update

Spec == Init /\ [][Next]_vars

(***************************************************************************)
(* solveEikonal() as a function of its inputs: the simulator in eikonal    *)
(* mode, started on a mesh whose distance field holds arbitrary earlier    *)
(* contents and whose speed field is one of several, uniform or not.       *)
(***************************************************************************)
\* earlier contents of eikonalDistance: as constructed, all zero, stale finite values
PriorFields ==
    {Constructed.eikonalDistance,
     Field(0),
     [i \in Idx |-> [j \in Idx |-> (i + j) * 100]]}

\* speed fields: the program's, uniform 1.0, and slow (1.0) left of the centre
\* column with fast (3.0) from it on
SpeedFields ==
    {Field(InitialSpeed),
     Field(SpeedScale),
     [i \in Idx |-> [j \in Idx |-> IF j < MeshSize \div 2 THEN SpeedScale ELSE 3 * SpeedScale]]}

InitSolve ==
    /\ temperature = Constructed.temperature
    /\ newTemperature = Constructed.newTemperature
    /\ eikonalDistance \in PriorFields
    /\ propagationSpeed \in SpeedFields
    /\ heatSources = Constructed.heatSources
    /\ timeStep = InitialTimeStep
    /\ currentTime = 0
    /\ iterations = 0
    /\ mode = "EIKONAL"
    /\ isRunning = TRUE
    /\ warned = FALSE
    /\ solver = NoSolver

NextSolve ==
    \/ KeySpace
    \/ KeyR
    \/ \E md \in {"EIKONAL", "COMBINED"} : KeyMode(md)
    \/ \E c \in ClickCells : MouseClick(c[1], c[2])
    \/ Update

SpecSolve == InitSolve /\ [][NextSolve]_vars


(***************************************************************************)
(* updateHeatDiffusion() as a function of its inputs: the step applied     *)
(* with no sources and a cooling rate of 0, from fields with one hot cell  *)
(* anywhere on the mesh (or none).                                         *)
(***************************************************************************)
StartFields ==
    {Field(AMBIENT_TEMP)} \cup
    {[i \in Idx |-> [j \in Idx |-> IF i = a /\ j = b THEN CentreTemp ELSE AMBIENT_TEMP]] :
        a \in Idx, b \in Idx}

InitConserve ==
    /\ temperature \in StartFields
    /\ newTemperature = Field(AMBIENT_TEMP)
    /\ eikonalDistance = Field(Infinity)
    /\ propagationSpeed = Field(InitialSpeed)
    /\ heatSources = <<>>
    /\ timeStep = InitialTimeStep
    /\ currentTime = 0
    /\ iterations = 0
    /\ mode = "HEAT_DIFFUSION"
    /\ isRunning = TRUE
    /\ warned = FALSE
    /\ solver = NoSolver

NextConserve ==
    \/ KeySpace
    \/ KeyPlus
    \/ KeyMinus
    \/ UpdateWith(0)

SpecConserve == InitConserve /\ [][NextConserve]_vars

(***************************************************************************)
(* solveEikonal() step by step: a tick in eikonal mode as the two          *)
(* initialisation loops, then one iteration of the while loop per step,    *)
(* then the rest of update().  pq.top() may return any entry of least      *)
(* distance.  No event is handled while the solver runs (handleEvents and  *)
(* update are called in turn by one thread), and the loop keeps running.   *)
(***************************************************************************)
\* entry a comes before entry b: by distance, then row, then column
Before(a, b) ==
    \/ a.distance < b.distance
    \/ a.distance = b.distance /\ a.y < b.y
    \/ a.distance = b.distance /\ a.y = b.y /\ a.x < b.x

\* the entries of q listed in that order: the queue is held as the collection of its
\* entries, top() and pop() do not reveal where the heap keeps them
RECURSIVE Ordered(_)
Ordered(q) ==
    IF q = <<>> THEN <<>>
    ELSE LET k == CHOOSE n \in 1 .. Len(q) : \A o \in 1 .. Len(q) : ~Before(q[o], q[n])
         IN  <<q[k]>> \o Ordered(RemoveAt(q, k))

\* the solver's locals st kept in the variables
StoreSolver(st) ==
    /\ eikonalDistance' = st.dist
    /\ solver' = [pc |-> "loop", pq |-> Ordered(st.pq), visited |-> st.visited]

SolverLocals == [dist |-> eikonalDistance, pq |-> solver.pq, visited |-> solver.visited]

\* update() up to the while loop of solveEikonal()
SolveBegin ==
    /\ solver.pc = "idle"
    /\ isRunning
    /\ mode = "EIKONAL"
    /\ iterations < MaxIter
    /\ StoreSolver(SolverStart(eikonalDistance, heatSources))
    /\ UNCHANGED <<temperature, newTemperature, propagationSpeed, heatSources,
                   timeStep, currentTime, iterations, mode, isRunning, warned>>

\* one iteration of the while loop
SolvePop ==
    /\ solver.pc = "loop"
    /\ solver.pq # <<>>
    /\ \E k \in TopIndices(solver.pq) : StoreSolver(PopStep(SolverLocals, propagationSpeed, k))
    /\ UNCHANGED <<temperature, newTemperature, propagationSpeed, heatSources,
                   timeStep, currentTime, iterations, mode, isRunning, warned>>

\* the loop's exit and the rest of update()
SolveReturn ==
    /\ solver.pc = "loop"
    /\ solver.pq = <<>>
    /\ solver' = NoSolver
    /\ currentTime' = currentTime + timeStep
    /\ iterations' = iterations + 1
    /\ warned' = Warns(mode, timeStep)
    /\ UNCHANGED <<meshVars, timeStep, mode, isRunning>>

InitQueue ==
    /\ temperature = Constructed.temperature
    /\ newTemperature = Constructed.newTemperature
    /\ eikonalDistance = Constructed.eikonalDistance
    /\ propagationSpeed \in SpeedFields
    /\ heatSources = Constructed.heatSources
    /\ timeStep = InitialTimeStep
    /\ currentTime = 0
    /\ iterations = 0
    /\ mode = "EIKONAL"
    /\ isRunning = TRUE
    /\ warned = FALSE
    /\ solver = NoSolver

NextQueue ==
    \/ solver.pc = "idle" /\ KeySpace
    \/ solver.pc = "idle" /\ KeyR
    \/ solver.pc = "idle" /\ \E c \in ClickCells : MouseClick(c[1], c[2])
    \/ SolveBegin
    \/ SolvePop
    \/ SolveReturn

\* SolvePop can be taken: the loop's condition !pq.empty() holds
PopEnabled == solver.pc = "loop" /\ solver.pq # <<>>

\* the running thread goes on: weak fairness of the loop's exit, and of the loop's
\* iteration, WF_vars(SolvePop), written with ENABLED <<SolvePop>>_vars as the loop
\* condition (every iteration removes an entry, so it changes vars) and
\* <<SolvePop>>_vars as the step from the loop into the loop
SpecQueue ==
    /\ InitQueue /\ [][NextQueue]_vars
    /\ WF_vars(SolveReturn)
    /\ ([]<>~PopEnabled \/ []<><<solver.pc = "loop" /\ solver'.pc = "loop">>_vars)

(***************************************************************************)
(* update() as a function of timeStep: the simulator started with timeStep *)
(* at its constructed value or at a value that makes r = alpha * timeStep  *)
(* exceed 0.25 (r just above 0.26, and r just above 0.5).                  *)
(***************************************************************************)
TimeSteps ==
    {InitialTimeStep,
     (260 * 1000000) \div thermalDiffusivity + 1,
     (500 * 1000000) \div thermalDiffusivity + 1}

InitUnstable ==
    /\ temperature = Constructed.temperature
    /\ newTemperature = Constructed.newTemperature
    /\ eikonalDistance = Constructed.eikonalDistance
    /\ propagationSpeed = Constructed.propagationSpeed
    /\ heatSources = Constructed.heatSources
    /\ timeStep \in TimeSteps
    /\ currentTime = 0
    /\ iterations = 0
    /\ mode = "HEAT_DIFFUSION"
    /\ isRunning = FALSE
    /\ warned = FALSE
    /\ solver = NoSolver

NextUnstable ==
    \/ KeySpace
    \/ KeyR
    \/ \E md \in {"HEAT_DIFFUSION", "EIKONAL", "COMBINED"} : KeyMode(md)
    \/ \E c \in ClickCells : MouseClick(c[1], c[2])
    \/ Update

SpecUnstable == InitUnstable /\ [][NextUnstable]_vars

(***************************************************************************)
(* Vocabulary of the properties.                                           *)
(***************************************************************************)
Centre == MeshSize \div 2

SourceIndices == 1 .. Len(heatSources)

\* cell [i][j] (row i, column j) is the cell of a recorded source
IsSourceCell(hs, i, j) == \E k \in 1 .. Len(hs) : hs[k].y = i /\ hs[k].x = j

\* a step of update() that ran a kernel
Ticked == isRunning /\ iterations' = iterations + 1

DiffusionTick == Ticked /\ mode = "HEAT_DIFFUSION"

EikonalTick == Ticked /\ mode = "EIKONAL"

CombinedTick == Ticked /\ mode = "COMBINED"

\* a step of update() that ran solveEikonal
SolveStep == Ticked /\ mode \in {"EIKONAL", "COMBINED"}

\* arrival times by relaxation to a fixed point: a cell's time is 0 at a source and
\* otherwise the least, over its in-mesh neighbours a, of time(a) plus the cost of
\* the step from a into the cell (edge length over the cell's own speed)
StepInto(d, sp, i, j, k) ==
    LET pi == i - dy[k]
        pj == j - dx[k]
    IN  IF pi \in Idx /\ pj \in Idx /\ d[pi][pj] < Infinity
        THEN d[pi][pj] + (edgeLength[k] * SpeedScale) \div sp[i][j]
        ELSE Infinity

LeastOf(S) == CHOOSE v \in S : \A w \in S : v <= w

RelaxAll(d, sp) ==
    [i \in Idx |-> [j \in Idx |->
        LeastOf({d[i][j]} \cup {StepInto(d, sp, i, j, k) : k \in 1 .. 8})]]

RECURSIVE FixedPoint(_, _)
FixedPoint(d, sp) ==
    LET n == RelaxAll(d, sp) IN IF n = d THEN d ELSE FixedPoint(n, sp)

ShortestTimes(sp, hs) ==
    FixedPoint([i \in Idx |-> [j \in Idx |-> IF IsSourceCell(hs, i, j) THEN 0 ELSE Infinity]], sp)

Abs(a) == IF a < 0 THEN -a ELSE a

Interior(i, j) == i >= 1 /\ i <= MeshSize - 2 /\ j >= 1 /\ j <= MeshSize - 2

\* the index of the interior row or column nearest to row or column i
NearestInterior(i) == Max(1, Min(MeshSize - 2, i))

\* the sum of field t over the interior cells, cell k onwards in row-major order
RECURSIVE SumFrom(_, _)
SumFrom(t, k) ==
    IF k >= MeshSize * MeshSize THEN 0
    ELSE (IF Interior(k \div MeshSize, k % MeshSize) THEN t[k \div MeshSize][k % MeshSize] ELSE 0)
         + SumFrom(t, k + 1)

InteriorSum(t) == SumFrom(t, 0)

\* what the rounding of r * laplacian can add up to over the interior cells
SumTolerance == 2 * (MeshSize - 2) * (MeshSize - 2)

\* hop count of cell [i][j] to its nearest source on the 8-connected mesh (on a full
\* mesh the graph distance between two cells is the larger coordinate difference)
Hops(hs, i, j) ==
    LeastOf({Max(Abs(i - hs[k].y), Abs(j - hs[k].x)) : k \in 1 .. Len(hs)})

(***************************************************************************)
(* C1.  Source pinning (temperature): in every state, for every source s   *)
(* recorded in heatSources, temperature[s.y][s.x] = s.temperature.         *)
(* Fails: the blend of updateCombined rewrites source cells (see C4), and  *)
(* two sources recorded on one cell cannot both be matched.                *)
(***************************************************************************)
C1_SourcePinnedTemperature ==
    \A k \in SourceIndices :
        temperature[heatSources[k].y][heatSources[k].x] = heatSources[k].temperature

(***************************************************************************)
(* C2.  Source pinning (distance): in every reachable state, every         *)
(* recorded source's cell holds distance 0.                                *)
(***************************************************************************)
C2_SourcePinnedDistance ==
    \A k \in SourceIndices : eikonalDistance[heatSources[k].y][heatSources[k].x] = 0

\* a solve has run over two sources, one of them added by a click on the corner
C2_Witness ==
    /\ iterations = 1
    /\ Len(heatSources) = 2
    /\ heatSources[2].x = 0 /\ heatSources[2].y = 0
    /\ eikonalDistance[0][0] = 0
    /\ eikonalDistance[Centre][Centre] = 0
    /\ eikonalDistance[0][1] > 0 /\ eikonalDistance[0][1] < Infinity

(***************************************************************************)
(* C4.  A combined-mode tick leaves every source cell's temperature equal  *)
(* to its source's fixed temperature.  Fails: the blend loop runs over     *)
(* every cell of finite distance, the source cells (distance 0) included.  *)
(***************************************************************************)
C4_BlendKeepsPinning ==
    [][CombinedTick =>
        \A k \in 1 .. Len(heatSources') :
            temperature'[heatSources'[k].y][heatSources'[k].x] = heatSources'[k].temperature]_vars

(***************************************************************************)
(* C10.  A tick in eikonal-only mode (one call of solveEikonal) leaves     *)
(* temperature, newTemperature, propagationSpeed and heatSources unchanged.*)
(***************************************************************************)
C10_SolveFrame ==
    [][EikonalTick =>
        UNCHANGED <<temperature, newTemperature, propagationSpeed, heatSources>>]_vars

\* after an eikonal tick from the constructed mesh: distances solved, temperature as built
C10_Witness ==
    /\ iterations = 1
    /\ mode = "EIKONAL"
    /\ eikonalDistance[0][0] < Infinity
    /\ temperature = Constructed.temperature
    /\ newTemperature = Constructed.newTemperature


(***************************************************************************)
(* C3.  When solveEikonal returns, every cell holds the least, over all    *)
(* 8-connected paths from a source, of the summed step costs               *)
(* edgeLength / speed[destination], and 0 at sources; with uniform speed   *)
(* 1.0 and the centre as only source the axis neighbours hold 1, the       *)
(* diagonal neighbours sqrt(2), the cell two diagonal steps away 2*sqrt(2).*)
(***************************************************************************)
C3_ShortestArrival ==
    [][SolveStep =>
        /\ eikonalDistance' = ShortestTimes(propagationSpeed, heatSources)
        /\ (propagationSpeed = Field(SpeedScale) /\ heatSources = Constructed.heatSources) =>
              /\ eikonalDistance'[Centre][Centre - 1] = DistScale
              /\ eikonalDistance'[Centre - 1][Centre] = DistScale
              /\ eikonalDistance'[Centre - 1][Centre - 1] = Sqrt2
              /\ eikonalDistance'[Centre - 2][Centre - 2] = 2 * Sqrt2]_vars

\* the scenario of the claim, solved: unit speed, the centre the only source
C3_Witness ==
    /\ iterations = 1
    /\ propagationSpeed = Field(SpeedScale)
    /\ heatSources = Constructed.heatSources
    /\ eikonalDistance[Centre][Centre] = 0
    /\ eikonalDistance[Centre][Centre - 1] = DistScale
    /\ eikonalDistance[Centre - 2][Centre - 2] = 2 * Sqrt2

(***************************************************************************)
(* C7.  Eikonal monotonicity as claimed: after solveEikonal on a uniform   *)
(* speed mesh, hops(p) <= hops(q) implies distance[p] <= distance[q].      *)
(* Fails: a diagonal neighbour of a source (1 hop, sqrt(2)) is farther     *)
(* than an axis neighbour (1 hop, 1).                                      *)
(***************************************************************************)
C7_MonotoneInHops ==
    [][SolveStep =>
        \A pi \in Idx, pj \in Idx, qi \in Idx, qj \in Idx :
            Hops(heatSources, pi, pj) <= Hops(heatSources, qi, qj)
                => eikonalDistance'[pi][pj] <= eikonalDistance'[qi][qj]]_vars

(***************************************************************************)
(* C7 amended.  After solveEikonal on a uniform speed mesh,                *)
(* sqrt(2) * hops(p) <= hops(q) implies distance[p] <= distance[q]         *)
(* (a hop costs between 1/speed and sqrt(2)/speed).                        *)
(***************************************************************************)
C7_MonotoneInScaledHops ==
    [][SolveStep =>
        \A pi \in Idx, pj \in Idx, qi \in Idx, qj \in Idx :
            Sqrt2 * Hops(heatSources, pi, pj) <= DistScale * Hops(heatSources, qi, qj)
                => eikonalDistance'[pi][pj] <= eikonalDistance'[qi][qj]]_vars

\* solved with the corner as second source: a cell 1 hop away diagonally and a
\* cell 2 hops away along an axis, the nearer one strictly earlier
C7_Witness ==
    /\ iterations = 1
    /\ Len(heatSources) = 2
    /\ heatSources[2].x = 0 /\ heatSources[2].y = 0
    /\ Hops(heatSources, 1, 1) = 1
    /\ Hops(heatSources, 0, 2) = 2
    /\ eikonalDistance[1][1] > 0
    /\ eikonalDistance[1][1] < eikonalDistance[0][2]
    /\ eikonalDistance[0][2] < Infinity

(***************************************************************************)
(* C9.  solveEikonal recomputes the distance field from (propagationSpeed, *)
(* heatSources) alone: whatever eikonalDistance held before, the result is *)
(* the one obtained from an all-infinite field, and solving again on the   *)
(* result changes nothing.                                                 *)
(***************************************************************************)
C9_FullRecomputation ==
    [][SolveStep =>
        /\ eikonalDistance' =
              SolveEikonal([CurrentMesh EXCEPT !.eikonalDistance = Field(Infinity)]).eikonalDistance
        /\ SolveEikonal([CurrentMesh EXCEPT !.eikonalDistance = eikonalDistance']).eikonalDistance
              = eikonalDistance']_vars

\* solved over two sources on the mesh with the two-speed field
C9_Witness ==
    /\ iterations = 1
    /\ Len(heatSources) = 2
    /\ propagationSpeed[0][0] # propagationSpeed[0][MeshSize - 1]
    /\ \A i \in Idx, j \in Idx : eikonalDistance[i][j] < Infinity
    /\ \E i \in Idx, j \in Idx : eikonalDistance[i][j] > 0


(***************************************************************************)
(* C5.  In one updateHeatDiffusion step every boundary cell that is not a  *)
(* source cell, corners included, gets the pre-step temperature of its     *)
(* nearest interior cell times (1 - COOLING_RATE).  Fails at the corners:  *)
(* the boundary loop's writes overlap there and the last one copies a      *)
(* neighbouring boundary cell.                                             *)
(***************************************************************************)
C5_BoundaryFromNearestInterior ==
    [][DiffusionTick =>
        \A i \in Idx, j \in Idx :
            (~Interior(i, j) /\ ~IsSourceCell(heatSources, i, j)) =>
                temperature'[i][j] =
                    Cooled(temperature[NearestInterior(i)][NearestInterior(j)], COOLING_RATE)]_vars

(***************************************************************************)
(* C6.  In one updateHeatDiffusion step every interior cell that is not a  *)
(* source cell ends with cur + r * (sum of its four edge neighbours in cur *)
(* - 4 * cur), cur being the temperature field before the step.            *)
(***************************************************************************)
C6_InteriorStencil ==
    [][DiffusionTick =>
        \A i \in Idx, j \in Idx :
            (Interior(i, j) /\ ~IsSourceCell(heatSources, i, j)) =>
                temperature'[i][j] =
                    temperature[i][j]
                    + RTimes(timeStep,
                             temperature[i - 1][j] + temperature[i + 1][j]
                             + temperature[i][j - 1] + temperature[i][j + 1]
                             - 4 * temperature[i][j])]_vars

\* the scenario of the claim after one step: the cell above the lone 800-degree
\* source is at ambient + r * (800 - ambient), the source still at 800
C6_Witness ==
    /\ iterations = 1
    /\ heatSources = Constructed.heatSources
    /\ temperature[Centre][Centre] = CentreTemp
    /\ Interior(Centre - 1, Centre)
    /\ temperature[Centre - 1][Centre]
          = AMBIENT_TEMP + RTimes(timeStep, CentreTemp - AMBIENT_TEMP)
    /\ temperature[Centre - 1][Centre] > AMBIENT_TEMP
    /\ newTemperature = Constructed.temperature

C11_AddHeatSourceContract ==
    [][/\ \A x \in -1 .. MeshSize, y \in -1 .. MeshSize :
              (x \notin Idx \/ y \notin Idx) =>
                  LET m == AddHeatSource(CurrentMesh, x, y, ClickTemp)
                  IN  /\ m.heatSources = heatSources
                      /\ m.temperature = temperature
                      /\ m.eikonalDistance = eikonalDistance
       /\ Len(heatSources') = Len(heatSources) + 1 =>
              LET s == heatSources'[Len(heatSources')]
              IN  /\ s.x \in Idx /\ s.y \in Idx
                  /\ heatSources' = Append(heatSources, s)
                  /\ \A i \in Idx, j \in Idx :
                        /\ temperature'[i][j] =
                              IF i = s.y /\ j = s.x THEN s.temperature ELSE temperature[i][j]
                        /\ eikonalDistance'[i][j] =
                              IF i = s.y /\ j = s.x THEN 0 ELSE eikonalDistance[i][j]]_vars

\* a source added at cell (1,1) of the freshly built mesh: recorded second, its cell at
\* 900 and distance 0, the cells around it as they were
C11_Witness ==
    /\ iterations = 0
    /\ heatSources = Append(Constructed.heatSources, HeatSource(1, 1, ClickTemp))
    /\ temperature[1][1] = ClickTemp
    /\ eikonalDistance[1][1] = 0
    /\ temperature[0][0] = AMBIENT_TEMP
    /\ eikonalDistance[0][0] = Infinity
    /\ temperature[Centre][Centre] = CentreTemp

(***************************************************************************)
(* C12.  Every reset() step, whatever state it is taken in (sources added, *)
(* ticks run, running or paused), ends with the mesh as constructed:       *)
(* heatSources is the single source (meshSize/2, meshSize/2, 800), its     *)
(* cell at 800 and distance 0, every other cell of temperature at ambient, *)
(* newTemperature at ambient, every other distance infinite, the speed     *)
(* field as initialised, currentTime and iterations 0, and paused.         *)
(***************************************************************************)
C12_ResetRestores ==
    [][KeyR =>
        /\ heatSources' = <<HeatSource(Centre, Centre, CentreTemp)>>
        /\ \A i \in Idx, j \in Idx :
              /\ temperature'[i][j] =
                    IF i = Centre /\ j = Centre THEN CentreTemp ELSE AMBIENT_TEMP
              /\ newTemperature'[i][j] = AMBIENT_TEMP
              /\ eikonalDistance'[i][j] =
                    IF i = Centre /\ j = Centre THEN 0 ELSE Infinity
              /\ propagationSpeed'[i][j] = InitialSpeed
        /\ currentTime' = 0
        /\ iterations' = 0
        /\ isRunning' = FALSE]_vars

\* a state reset() is taken in: running, one combined tick done, a second source
\* recorded, both buffers and the distance field no longer as constructed; and the
\* reset from it removes the added source
C12_Witness ==
    /\ isRunning
    /\ iterations = 1
    /\ currentTime > 0
    /\ Len(heatSources) = 2
    /\ temperature # Constructed.temperature
    /\ newTemperature # Constructed.newTemperature
    /\ \A i \in Idx, j \in Idx : eikonalDistance[i][j] < Infinity
    /\ ENABLED (KeyR /\ Len(heatSources') = 1 /\ iterations' = 0 /\ ~isRunning')

(***************************************************************************)
(* C13.  A tick that runs updateHeatDiffusion with r > 0.25 (diffusion or  *)
(* combined mode) writes the stability warning, swaps the buffers, adds    *)
(* timeStep to currentTime and 1 to iterations and leaves the simulation   *)
(* running; in diffusion mode the step is the complete one: the stencil in *)
(* every interior cell, the cooled copy in every boundary cell off the     *)
(* corners, and every source cell at a temperature recorded for it.        *)
(***************************************************************************)
C13_UnstableStepCompletes ==
    [][(Ticked /\ mode \in {"HEAT_DIFFUSION", "COMBINED"} /\ Unstable(timeStep)) =>
        /\ warned'
        /\ newTemperature' = temperature
        /\ currentTime' = currentTime + timeStep
        /\ iterations' = iterations + 1
        /\ isRunning'
        /\ mode = "HEAT_DIFFUSION" =>
              \A i \in Idx, j \in Idx :
                  IF IsSourceCell(heatSources, i, j)
                  THEN \E k \in SourceIndices :
                          /\ heatSources[k].y = i /\ heatSources[k].x = j
                          /\ temperature'[i][j] = heatSources[k].temperature
                  ELSE IF Interior(i, j)
                  THEN temperature'[i][j] =
                          temperature[i][j] + RTimes(timeStep, Laplacian(temperature, i, j))
                  ELSE (Interior(i, NearestInterior(j)) \/ Interior(NearestInterior(i), j)) =>
                          temperature'[i][j] =
                              Cooled(temperature[NearestInterior(i)][NearestInterior(j)],
                                     COOLING_RATE)]_vars

\* one diffusion tick at r = 0.26 from the constructed mesh: the warning written, the
\* cell above the source up by r * 780 (more than 200 degrees), the source at 800,
\* the buffers swapped, time and count advanced, still running
C13_Witness ==
    /\ Unstable(timeStep)
    /\ Ratio(timeStep) < 300 * 1000000
    /\ warned
    /\ isRunning
    /\ iterations = 1
    /\ currentTime = timeStep
    /\ mode = "HEAT_DIFFUSION"
    /\ heatSources = Constructed.heatSources
    /\ temperature[Centre - 1][Centre]
          = AMBIENT_TEMP + RTimes(timeStep, CentreTemp - AMBIENT_TEMP)
    /\ temperature[Centre - 1][Centre] > 220 * TempScale
    /\ temperature[Centre][Centre] = CentreTemp
    /\ newTemperature = Constructed.temperature

(***************************************************************************)
(* C14.  Eikonal symmetry: after solveEikonal on a mesh of odd size with   *)
(* one speed in every cell and the centre cell as the only source,         *)
(* distance[i][j] = distance[j][i] = distance[n-1-i][j] =                  *)
(* distance[i][n-1-j] for every cell.                                      *)
(***************************************************************************)
C14_CentreSymmetry ==
    [][(/\ SolveStep
        /\ MeshSize % 2 = 1
        /\ heatSources = <<HeatSource(Centre, Centre, CentreTemp)>>
        /\ \A i \in Idx, j \in Idx : propagationSpeed[i][j] = propagationSpeed[0][0]) =>
        \A i \in Idx, j \in Idx :
            /\ eikonalDistance'[i][j] = eikonalDistance'[j][i]
            /\ eikonalDistance'[i][j] = eikonalDistance'[MeshSize - 1 - i][j]
            /\ eikonalDistance'[i][j] = eikonalDistance'[i][MeshSize - 1 - j]]_vars

\* solved at the program's speed from the centre alone: the eight cells a knight's
\* move from the centre hold one finite distance, between the axis and the corner ones
C14_Witness ==
    /\ MeshSize % 2 = 1
    /\ iterations = 1
    /\ mode = "EIKONAL"
    /\ heatSources = <<HeatSource(Centre, Centre, CentreTemp)>>
    /\ propagationSpeed = Field(InitialSpeed)
    /\ eikonalDistance[Centre - 2][Centre - 1] = eikonalDistance[Centre - 1][Centre - 2]
    /\ eikonalDistance[Centre - 2][Centre - 1] = eikonalDistance[Centre + 2][Centre - 1]
    /\ eikonalDistance[Centre - 2][Centre - 1] = eikonalDistance[Centre - 2][Centre + 1]
    /\ eikonalDistance[Centre - 2][Centre - 1] = eikonalDistance[Centre + 1][Centre + 2]
    /\ eikonalDistance[Centre][Centre - 2] < eikonalDistance[Centre - 2][Centre - 1]
    /\ eikonalDistance[Centre - 2][Centre - 1] < eikonalDistance[Centre - 2][Centre - 2]
    /\ eikonalDistance[Centre - 2][Centre - 2] < Infinity

(***************************************************************************)
(* C15.  Whatever entries of least distance the while loop of solveEikonal *)
(* pops first, when the queue is empty every cell of eikonalDistance holds *)
(* the value that one fixed pop order yields from the same sources and     *)
(* speeds: all admissible pop orders end with the same field.              *)
(***************************************************************************)
C15_PopOrderIndependent ==
    (solver.pc = "loop" /\ solver.pq = <<>>) =>
        eikonalDistance = RunQueue(SolverStart(eikonalDistance, heatSources), propagationSpeed).dist

\* the loop is running and top() has a choice: two entries of least distance, for two
\* cells not yet visited and away from the sources; either may be popped first
C15_Witness ==
    /\ solver.pc = "loop"
    /\ \E k \in TopIndices(solver.pq), n \in TopIndices(solver.pq) :
          /\ solver.pq[k].distance > 0
          /\ <<solver.pq[k].x, solver.pq[k].y>> # <<solver.pq[n].x, solver.pq[n].y>>
          /\ ~solver.visited[solver.pq[k].y][solver.pq[k].x]
          /\ ~solver.visited[solver.pq[n].y][solver.pq[n].x]
    /\ \E i \in Idx, j \in Idx : solver.visited[i][j]

\* the cells marked visited in v
VisitedCells(v) == {c \in Idx \X Idx : v[c[1]][c[2]]}

\* a step of the while loop of solveEikonal
LoopStep == solver.pc = "loop" /\ solver'.pc = "loop"

(***************************************************************************)
(* C16.  solveEikonal terminates: once its loop runs, the queue becomes    *)
(* empty and update() returns.  A loop step either marks exactly one cell, *)
(* one not marked before, or (the popped entry is a stale one, for a cell  *)
(* already marked) removes that entry and changes nothing else; a marked   *)
(* cell stays marked and its distance never changes again; and when the    *)
(* queue is empty, with at least one source, every cell is marked.         *)
(***************************************************************************)
C16_SolverTerminates ==
    /\ (solver.pc = "loop") ~> (solver.pc = "loop" /\ solver.pq = <<>>)
    /\ (solver.pc = "loop") ~> (solver.pc = "idle")
    /\ [][LoopStep =>
            /\ VisitedCells(solver.visited) \subseteq VisitedCells(solver'.visited)
            /\ \A c \in VisitedCells(solver.visited) :
                  eikonalDistance'[c[1]][c[2]] = eikonalDistance[c[1]][c[2]]
            /\ \/ Cardinality(VisitedCells(solver'.visited))
                      = Cardinality(VisitedCells(solver.visited)) + 1
               \/ /\ solver'.visited = solver.visited
                  /\ eikonalDistance' = eikonalDistance
                  /\ Len(solver'.pq) = Len(solver.pq) - 1]_vars
    /\ [](solver.pc = "loop" /\ solver.pq = <<>> /\ heatSources # <<>> =>
            \A i \in Idx, j \in Idx : solver.visited[i][j])

\* the loop is running with a stale entry on the queue: an entry for a cell already
\* marked, while other cells are still to be visited
C16_Witness ==
    /\ solver.pc = "loop"
    /\ \E k \in 1 .. Len(solver.pq) : solver.visited[solver.pq[k].y][solver.pq[k].x]
    /\ \E i \in Idx, j \in Idx : ~solver.visited[i][j]
    /\ \E i \in Idx, j \in Idx : solver.visited[i][j] /\ eikonalDistance[i][j] > 0

(***************************************************************************)
(* C17.  update() while paused (isRunning false) leaves temperature,       *)
(* eikonalDistance, heatSources, currentTime and iterations unchanged, in  *)
(* every mode.  update() while running runs the kernel of the selected     *)
(* mode and no other (diffusion: the diffusion step, distances untouched;  *)
(* eikonal: the solve, both temperature buffers untouched; combined:       *)
(* updateCombined) and adds exactly 1 to iterations.  Every step that      *)
(* changes iterations is such a running tick or a reset to 0: iterations   *)
(* counts the running ticks since construction or the last reset.          *)
(***************************************************************************)
\* a step of update() while running: the only step that advances the clock
RunningTick == isRunning /\ currentTime' = currentTime + timeStep

C17_PausedTickIsNoOp ==
    [][/\ (~isRunning /\ Update) =>
              UNCHANGED <<temperature, eikonalDistance, heatSources, currentTime, iterations>>
       /\ RunningTick =>
              /\ iterations' = iterations + 1
              /\ heatSources' = heatSources
              /\ mode = "HEAT_DIFFUSION" =>
                    /\ temperature' =
                          UpdateHeatDiffusion(CurrentMesh, timeStep, COOLING_RATE).temperature
                    /\ eikonalDistance' = eikonalDistance
              /\ mode = "EIKONAL" =>
                    /\ temperature' = temperature
                    /\ newTemperature' = newTemperature
                    /\ eikonalDistance' = SolveEikonal(CurrentMesh).eikonalDistance
              /\ mode = "COMBINED" =>
                    LET combined == UpdateCombined(CurrentMesh, timeStep, COOLING_RATE)
                    IN  /\ temperature' = combined.temperature
                        /\ eikonalDistance' = combined.eikonalDistance
       /\ iterations' # iterations =>
              \/ iterations' = 0 /\ KeyR
              \/ iterations' = iterations + 1 /\ RunningTick]_vars

\* paused after one counted tick of the combined mode: a tick taken here is a paused one
C17_Witness ==
    /\ ~isRunning
    /\ iterations = 1
    /\ currentTime > 0
    /\ mode = "COMBINED"
    /\ temperature # Constructed.temperature
    /\ eikonalDistance[0][0] < Infinity

=============================================================================
